---------------------------- MODULE Spec2Model ----------------------------
(***************************************************************************)
(* Model of objectstoreaccess.py: the loader that reads FASTA objects from *)
(* an object-store bucket, inserts them into a findNeighbour4 server and   *)
(* records every attempt in a relational ledger.                           *)
(*                                                                         *)
(* Python strings are sequences of one-character strings; a Python None in *)
(* a string column is the value None, in an integer or timestamp column    *)
(* the value Null.  datetime.now() is the counter now, which advances at   *)
(* every call and, between two passes, to the next multiple of             *)
(* TicksPerPass.                                                           *)
(***************************************************************************)
EXTENDS Integers, Sequences, FiniteSets, TLC

VARIABLES
    bucket,         \* indices (into BucketObjects) of the objects in the bucket
    server,         \* the guids held by the findNeighbour4 server
    attempts,       \* table fn4loadattempt: sequence of rows, in insertion order
    batches,        \* table fn4batchload: sequence of rows, in insertion order
    pc,             \* position of the process
    passNo,         \* number of calls of insert_files_into_server so far
    now,            \* the clock read by datetime.now()
    guids,          \* local: the guids recovered from the server in this pass
    to_add,         \* local: the fn4ids selected in this pass
    current_files,  \* local: the selected objects, in listing order
    batch_start_time, \* local
    idx,            \* local: number of selected objects already recorded
    res,            \* local: the row being built for object idx+1
    n_inserted,     \* __main__: the last value returned by insert_files_into_server
    slept,          \* __main__: whether time.sleep(180) ran after the last pass
    fault,          \* why the process ended ("none" while it runs)
    fetched,        \* history: objects fetched in the current pass, in order
    submitted,      \* history: _insert calls of the current pass, in order
    retry,          \* history: objects whose submission faulted and whose next pass has not ended
    interrupted,    \* history: the pass that was stopped between two objects, until the next pass starts
    arg,            \* function under test: its argument
    result,         \* function under test: the value it returned
    op,             \* function under test: which one was applied last ("none" if none)
    store           \* BucketAccess under test: the objects of its bucket and the number of puts

vars == << bucket, server, attempts, batches, pc, passNo, now, guids, to_add,
           current_files, batch_start_time, idx, res, n_inserted, slept, fault,
           fetched, submitted, retry, interrupted, arg, result, op, store >>

-----------------------------------------------------------------------------
(* Bounds of the model *)

MaxPasses == 2
MaxBucket == 2
MaxRecords == 3
MaxChunks == 3
MaxPuts == 3

\* no pass reads the clock more often than this: twice for the batch row
\* and five times for each object, of which there may be MaxBucket or, in
\* the three-object scenario, one more
TicksPerPass == 2 + 5 * (MaxBucket + 1)

-----------------------------------------------------------------------------
(* Python values *)

None == << "None" >>
Null == -1

\* x.startswith(p)
StartsWith(x, p) ==
    /\ Len(x) >= Len(p)
    /\ SubSeq(x, 1, Len(p)) = p

\* index of the first occurrence of old in x at or after position k, 0 if none
RECURSIVE Find(_, _, _)
Find(x, old, k) ==
    IF k + Len(old) - 1 > Len(x) THEN 0
    ELSE IF SubSeq(x, k, k + Len(old) - 1) = old THEN k
    ELSE Find(x, old, k + 1)

\* x.replace(old, new): every non-overlapping occurrence, left to right
RECURSIVE Replace(_, _, _)
Replace(x, old, new) ==
    LET k == Find(x, old, 1) IN
    IF k = 0 THEN x
    ELSE SubSeq(x, 1, k - 1) \o new
         \o Replace(SubSeq(x, k + Len(old), Len(x)), old, new)

\* x.split(sep)[0]: the part before the first sep (all of x if there is none)
SplitFirst(x, sep) ==
    LET k == Find(x, sep, 1) IN
    IF k = 0 THEN x ELSE SubSeq(x, 1, k - 1)

-----------------------------------------------------------------------------
(* Configuration of one ObjectStore2FN4 instance *)

HostName == "fn4dev"
ServerUrl == "http://localhost:5025"

GPAS_SP3 == << "G", "P", "A", "S", "_", "S", "P", "3" >>
GPAS_SP3_BAR == GPAS_SP3 \o << "|" >>


-----------------------------------------------------------------------------
(* The objects that can arrive in the bucket.  Position in BucketObjects is *)
(* the order of time_created.  content is what SeqIO.parse yields for the   *)
(* object's text: its FASTA records, in order.                              *)

Rec(id, seq) == [id |-> id, seq |-> seq]

BucketObjects == <<
    \* a.fa: one record, id GPAS_SP3|a
    [name |-> << "a", ".", "f", "a" >>,
     content |-> << Rec(GPAS_SP3_BAR \o << "a" >>, << "A", "C", "G" >>) >>],
    \* b.fa: two records
    [name |-> << "b", ".", "f", "a" >>,
     content |-> << Rec(GPAS_SP3_BAR \o << "b" >>, << "A", "C" >>),
                    Rec(GPAS_SP3_BAR \o << "c" >>, << "T" >>) >>],
    \* c.fa: one record, id GPAS_SP3|a (not the name of the object)
    [name |-> << "c", ".", "f", "a" >>,
     content |-> << Rec(GPAS_SP3_BAR \o << "a" >>, << "A", "C", "G" >>) >>],
    \* d.fa: no record
    [name |-> << "d", ".", "f", "a" >>,
     content |-> << >>],
    \* e.fa: one record, id e (no GPAS_SP3 tag)
    [name |-> << "e", ".", "f", "a" >>,
     content |-> << Rec(<< "e" >>, << "A" >>) >>],
    \* GPAS_SP3|f.fa: one record, id GPAS_SP3|f
    [name |-> GPAS_SP3_BAR \o << "f", ".", "f", "a" >>,
     content |-> << Rec(GPAS_SP3_BAR \o << "f" >>, << "G", "G" >>) >>],
    \* a.fasta: one record, id GPAS_SP3|a; as a.fa, it is "a" before the first "."
    [name |-> << "a", ".", "f", "a", "s", "t", "a" >>,
     content |-> << Rec(GPAS_SP3_BAR \o << "a" >>, << "A", "C", "G" >>) >>]
    >>

Objects == DOMAIN BucketObjects

\* the codes an insert can end with; ConnectionError is requests raising
\* before any response exists
ConnectionError == 0
InsertOutcomes == { 200, 400, 500, ConnectionError }

-----------------------------------------------------------------------------
(* BucketAccess *)

\* the objects of a set, sorted by time_created ascending
RECURSIVE SortedByTime(_)
SortedByTime(S) ==
    IF S = {} THEN << >>
    ELSE LET m == CHOOSE x \in S : \A y \in S : x <= y
         IN  << m >> \o SortedByTime(S \ {m})

\* the None that list_files returns in place of a listing
NoListing == << 0 >>

\* list_files: the listing sorted by time_created, or None for an empty bucket
list_files(b) ==
    IF b = {} THEN NoListing ELSE SortedByTime(b)

-----------------------------------------------------------------------------
(* ObjectStore2FN4 *)

\* _getpost with > 500 written for >= 500
GetpostRaisesAbove500(outcome) ==
    \/ outcome = ConnectionError
    \/ outcome > 500

\* _getpost raises for a missing response and for status codes >= 500
GetpostRaises(outcome) ==
    \/ outcome = ConnectionError
    \/ outcome >= 500

\* filename2fn4id without the test for the tag
filename2fn4idNoTest(x) == Replace(x, GPAS_SP3_BAR, << >>)

filename2fn4id(x) ==
    IF StartsWith(x, GPAS_SP3)
    THEN Replace(x, GPAS_SP3_BAR, << >>)
    ELSE None

\* the loop over the records with nFiles == 2 for nFiles > 1
RECURSIVE ParseRecordsSecondOnly(_, _, _)
ParseRecordsSecondOnly(records, nFiles, r) ==
    IF records = << >> THEN r
    ELSE LET record == Head(records) IN
         IF nFiles + 1 = 2
         THEN ParseRecordsSecondOnly(Tail(records), nFiles + 1,
                                     [r EXCEPT !.parse_status = "Failed, multifasta"])
         ELSE ParseRecordsSecondOnly(Tail(records), nFiles + 1,
                                     [r EXCEPT !.parse_status = "Success",
                                               !.seqid = record.id,
                                               !.len_seq = Len(record.seq),
                                               !.seq = record.seq])

\* the loop over SeqIO.parse(f, "fasta"): r is the part of res it assigns
RECURSIVE ParseRecords(_, _, _)
ParseRecords(records, nFiles, r) ==
    IF records = << >> THEN r
    ELSE LET record == Head(records) IN
         IF nFiles + 1 > 1
         THEN ParseRecords(Tail(records), nFiles + 1,
                           [r EXCEPT !.parse_status = "Failed, multifasta"])
         ELSE ParseRecords(Tail(records), nFiles + 1,
                           [r EXCEPT !.parse_status = "Success",
                                     !.seqid = record.id,
                                     !.len_seq = Len(record.seq),
                                     !.seq = record.seq])

\* res after parsing with the seqid turned into an fn4id whatever parse_status is
ParsedResAnyStatus(file_name, content, i, batch_size, bst, t0, t1) ==
    LET r1 == ParseRecords(content, 0,
                           [ host_name |-> HostName,
                             findneighbour_server_url |-> ServerUrl,
                             parse_status |-> "Failed",
                             batch_start_time |-> bst,
                             batch_sample_number |-> i,
                             batch_size |-> batch_size,
                             seqid |-> None,
                             file_name |-> file_name,
                             len_seq |-> Null,
                             bucket_read_start_time |-> t0,
                             bucket_read_end_time |-> t1,
                             fn4id |-> None,
                             insert_start_time |-> Null,
                             insert_end_time |-> Null,
                             insert_status_code |-> Null,
                             seq |-> None ])
        id == filename2fn4id(r1.seqid)
    IN  IF id # None THEN [r1 EXCEPT !.fn4id = id]
        ELSE IF r1.parse_status = "Success"
             THEN [r1 EXCEPT !.parse_status = "Failed, seqid does not start with GPAS"]
             ELSE r1

\* res as line 746 makes it and as line 764 leaves it, and seq before the
\* first record
InitialRes(file_name, i, batch_size, bst, t0, t1) ==
    [ host_name |-> HostName,
      findneighbour_server_url |-> ServerUrl,
      parse_status |-> "Failed",
      batch_start_time |-> bst,
      batch_sample_number |-> i,
      batch_size |-> batch_size,
      seqid |-> None,
      file_name |-> file_name,
      len_seq |-> Null,
      bucket_read_start_time |-> t0,
      bucket_read_end_time |-> t1,
      fn4id |-> None,
      insert_start_time |-> Null,
      insert_end_time |-> Null,
      insert_status_code |-> Null,
      seq |-> None ]

\* res and seq with fn4id taken from the file name where the seqid has the tag
ParsedResFromName(file_name, content, i, batch_size, bst, t0, t1) ==
    LET r0 == InitialRes(file_name, i, batch_size, bst, t0, t1)
        r1 == ParseRecords(content, 0, r0)
        id == filename2fn4id(r1.seqid)
    IN  IF r1.parse_status = "Success"
        THEN IF id = None
             THEN [r1 EXCEPT !.parse_status = "Failed, seqid does not start with GPAS"]
             ELSE [r1 EXCEPT !.fn4id = SplitFirst(file_name, << "." >>)]
        ELSE r1

\* res and seq as they stand after parsing and the seqid check
ParsedRes(file_name, content, i, batch_size, bst, t0, t1) ==
    LET r0 == InitialRes(file_name, i, batch_size, bst, t0, t1)
        r1 == ParseRecords(content, 0, r0)
        id == filename2fn4id(r1.seqid)
    IN  IF r1.parse_status = "Success"
        THEN IF id = None
             THEN [r1 EXCEPT !.parse_status = "Failed, seqid does not start with GPAS"]
             ELSE [r1 EXCEPT !.fn4id = id]
        ELSE r1

\* move_file with every code below 500 taken for an insert that worked
MoveFileBelow500(parse_status, insert_status_code) ==
    IF \/ parse_status # "Success"
       \/ (insert_status_code # Null /\ insert_status_code < 500)
    THEN 1 ELSE 0

\* move_file, stored as completed
MoveFile(parse_status, insert_status_code) ==
    IF parse_status # "Success" \/ insert_status_code = 200 THEN 1 ELSE 0

\* completed == 1, with completed the empty Python list of line 706
ListEqualsOne(completed) == FALSE

\* the fn4ids returned by the query of lines 710-717
CompletedFn4ids(rows) ==
    { rows[k].fn4id : k \in { j \in DOMAIN rows :
                                /\ rows[j].host_name = HostName
                                /\ rows[j].findneighbour_server_url = ServerUrl
                                /\ ListEqualsOne(<< >>) } }

\* fn4id of a listed name: the bit before the first "."
Fn4idOfName(filename) == SplitFirst(filename, << "." >>)

\* to_add
ToAdd(fn4ids, guidlist, completed) == (fn4ids \ guidlist) \ completed

\* current_files[current_files["fn4id"].isin(to_add)]
SelectSeq2(listing, sel) ==
    LET keep(f) == Fn4idOfName(BucketObjects[f].name) \in sel
    IN  SelectSeq(listing, keep)

\* n_inserted == 0 in __main__: n_inserted is the dict returned by the pass
DictEqualsZero(d) == FALSE

\* the columns of fn4loadattempt with batch_start_time left unset
AttemptRowNoBatchTime(r, completed) ==
    [ host_name |-> r.host_name,
      findneighbour_server_url |-> r.findneighbour_server_url,
      parse_status |-> r.parse_status,
      batch_start_time |-> Null,
      batch_sample_number |-> r.batch_sample_number,
      batch_size |-> r.batch_size,
      seqid |-> r.seqid,
      file_name |-> r.file_name,
      len_seq |-> r.len_seq,
      bucket_read_start_time |-> r.bucket_read_start_time,
      bucket_read_end_time |-> r.bucket_read_end_time,
      fn4id |-> r.fn4id,
      insert_start_time |-> r.insert_start_time,
      insert_end_time |-> r.insert_end_time,
      insert_status_code |-> r.insert_status_code,
      completed |-> completed ]

\* the columns of fn4loadattempt, from res and completed (first_128_chars, a
\* prefix of the object's text, is left out: the text is held as its records)
AttemptRow(r, completed) ==
    [ host_name |-> r.host_name,
      findneighbour_server_url |-> r.findneighbour_server_url,
      parse_status |-> r.parse_status,
      batch_start_time |-> r.batch_start_time,
      batch_sample_number |-> r.batch_sample_number,
      batch_size |-> r.batch_size,
      seqid |-> r.seqid,
      file_name |-> r.file_name,
      len_seq |-> r.len_seq,
      bucket_read_start_time |-> r.bucket_read_start_time,
      bucket_read_end_time |-> r.bucket_read_end_time,
      fn4id |-> r.fn4id,
      insert_start_time |-> r.insert_start_time,
      insert_end_time |-> r.insert_end_time,
      insert_status_code |-> r.insert_status_code,
      completed |-> completed ]

-----------------------------------------------------------------------------
(* State *)

NoRes == [ parse_status |-> "none" ]
NoReturn == [ added |-> Null ]

stores == << bucket, server, attempts, batches >>
locals == << guids, to_add, current_files, batch_start_time, idx, res >>
mainvars == << n_inserted, slept >>
history == << fetched, submitted >>
harness == << arg, result, op >>

\* a bucket without objects, nothing put so far
EmptyStore == [ objects |-> {}, puts |-> 0 ]

\* no pass was stopped
NoKill == [ files |-> << >>, k |-> 0, batch_start_time |-> Null ]

\* the loader and its stores after construction, the bucket holding b
InitWith(b) ==
    /\ bucket = b
    /\ server = {}
    /\ attempts = << >>
    /\ batches = << >>
    /\ pc = "loop"
    /\ passNo = 0
    /\ now = 0
    /\ retry = {}
    /\ guids = {}
    /\ to_add = {}
    /\ current_files = << >>
    /\ batch_start_time = Null
    /\ idx = 0
    /\ res = NoRes
    /\ n_inserted = NoReturn
    /\ slept = FALSE
    /\ fault = "none"
    /\ fetched = << >>
    /\ submitted = << >>
    /\ interrupted = NoKill

MainInit == InitWith({})

Init ==
    /\ MainInit
    /\ arg = << >>
    /\ result = << >>
    /\ op = "none"
    /\ store = EmptyStore

\* the locals of insert_files_into_server are gone once the call has ended,
\* and the next pass, pass number passes + 1, reads a later clock
CallEnds(passes) ==
    /\ guids' = {}
    /\ to_add' = {}
    /\ current_files' = << >>
    /\ batch_start_time' = Null
    /\ idx' = 0
    /\ res' = NoRes
    /\ fetched' = << >>
    /\ submitted' = << >>
    /\ now' = passes * TicksPerPass

\* a step that is not the call of a function under test
Unobserved ==
    /\ arg' = << >>
    /\ result' = << >>
    /\ op' = "none"
    /\ store' = store

\* an uncaught exception ends insert_files_into_server and, there being no
\* handler in __main__, the process
Raise(why, passes) ==
    /\ pc' = "dead"
    /\ fault' = why
    /\ n_inserted' = NoReturn
    /\ slept' = FALSE
    /\ CallEnds(passes)

\* __main__, lines 889-894: the value returned is compared with 0, the loop
\* sleeps if they are equal, and the next pass begins
BackToLoop(returned, passes) ==
    /\ n_inserted' = returned
    /\ slept' = DictEqualsZero(returned)
    /\ pc' = "loop"
    /\ CallEnds(passes)

-----------------------------------------------------------------------------
(* insert_files_into_server, up to the batch row (lines 671-738) *)

\* list_files raises
ListFilesFault ==
    /\ pc = "loop"
    /\ passNo < MaxPasses
    /\ passNo' = passNo + 1
    /\ Raise("list_files", passNo + 1)
    /\ UNCHANGED << stores, retry >>
    /\ interrupted' = NoKill
    /\ Unobserved

\* list_files returns None: return {"added": 0}
EmptyListing ==
    /\ pc = "loop"
    /\ passNo < MaxPasses
    /\ list_files(bucket) = NoListing
    /\ passNo' = passNo + 1
    /\ BackToLoop([added |-> 0], passNo + 1)
    /\ UNCHANGED << stores, fault, retry >>
    /\ interrupted' = NoKill
    /\ Unobserved

\* guids() raises
GuidsFault ==
    /\ pc = "loop"
    /\ passNo < MaxPasses
    /\ list_files(bucket) # NoListing
    /\ passNo' = passNo + 1
    /\ Raise("guids", passNo + 1)
    /\ UNCHANGED << stores, retry >>
    /\ interrupted' = NoKill
    /\ Unobserved

\* the fn4ids of a listing
Fn4idsOf(listing) ==
    { Fn4idOfName(BucketObjects[listing[k]].name) : k \in DOMAIN listing }

\* the row of fn4batchload with check_time left unset
BatchRowNoTime(check_time, batch_size, number_in_server) ==
    [ host_name |-> HostName,
      findneighbour_server_url |-> ServerUrl,
      check_time |-> Null,
      batch_size |-> batch_size,
      number_in_server |-> number_in_server ]

\* the row of fn4batchload
BatchRow(check_time, batch_size, number_in_server) ==
    [ host_name |-> HostName,
      findneighbour_server_url |-> ServerUrl,
      check_time |-> check_time,
      batch_size |-> batch_size,
      number_in_server |-> number_in_server ]

\* listing, guids, selection and the batch row
SelectBatch ==
    /\ pc = "loop"
    /\ passNo < MaxPasses
    /\ list_files(bucket) # NoListing
    /\ passNo' = passNo + 1
    /\ LET listing == list_files(bucket)
           sel == ToAdd(Fn4idsOf(listing), server, CompletedFn4ids(attempts))
           files == SelectSeq2(listing, sel)
       IN  /\ guids' = server
           /\ to_add' = sel
           /\ current_files' = files
           /\ batch_start_time' = now
           /\ batches' = Append(batches, BatchRow(now + 1, Len(files), Cardinality(server)))
    /\ now' = now + 2
    /\ idx' = 0
    /\ pc' = "items"
    /\ UNCHANGED << bucket, server, attempts, res, mainvars, fault, history, retry >>
    /\ interrupted' = NoKill
    /\ Unobserved

-----------------------------------------------------------------------------
(* insert_files_into_server, the loop over the selected objects (740-811) *)

\* the object the loop is at
CurrentObject == current_files[idx + 1]

\* res after lines 742-787 for the object the loop is at
CurrentParsed ==
    ParsedRes(BucketObjects[CurrentObject].name,
              BucketObjects[CurrentObject].content,
              idx, Cardinality(to_add), batch_start_time, now, now + 1)

\* load_bucket_into_string raises
FetchFault ==
    /\ pc = "items"
    /\ idx < Len(current_files)
    /\ Raise("load_bucket_into_string", passNo)
    /\ retry' = {}
    /\ UNCHANGED << stores, passNo >>
    /\ UNCHANGED interrupted
    /\ Unobserved

\* fetch and parse of an object that yields no fn4id: no insert
FetchNoInsert ==
    /\ pc = "items"
    /\ idx < Len(current_files)
    /\ CurrentParsed.fn4id = None
    /\ res' = CurrentParsed
    /\ fetched' = Append(fetched, CurrentObject)
    /\ now' = now + 2
    /\ pc' = "record"
    /\ UNCHANGED << stores, passNo, guids, to_add, current_files,
                    batch_start_time, idx, mainvars, fault, submitted, retry >>
    /\ UNCHANGED interrupted
    /\ Unobserved

\* the _insert call as the loop makes it
InsertCall(r, outcome) ==
    [ object |-> CurrentObject, guid |-> r.fn4id, seq |-> r.seq, outcome |-> outcome ]

\* fetch, parse and an insert that raises in _getpost
InsertFault(outcome) ==
    /\ pc = "items"
    /\ idx < Len(current_files)
    /\ CurrentParsed.fn4id # None
    /\ GetpostRaises(outcome)
    /\ retry' = { CurrentObject }
    /\ Raise("_insert", passNo)
    /\ UNCHANGED << stores, passNo >>
    /\ UNCHANGED interrupted
    /\ Unobserved

\* fetch, parse and an insert that returns a response
InsertResponse(outcome) ==
    /\ pc = "items"
    /\ idx < Len(current_files)
    /\ CurrentParsed.fn4id # None
    /\ ~ GetpostRaises(outcome)
    /\ fetched' = Append(fetched, CurrentObject)
    /\ submitted' = Append(submitted, InsertCall(CurrentParsed, outcome))
    /\ server' = IF outcome = 200 THEN server \cup { CurrentParsed.fn4id } ELSE server
    /\ res' = [ CurrentParsed EXCEPT !.insert_start_time = now + 2,
                                     !.insert_end_time = now + 3,
                                     !.insert_status_code = outcome ]
    /\ now' = now + 4
    /\ pc' = "record"
    /\ UNCHANGED << bucket, attempts, batches, passNo, guids, to_add,
                    current_files, batch_start_time, idx, mainvars, fault, retry >>
    /\ UNCHANGED interrupted
    /\ Unobserved

\* completed is computed, the row is added and committed (lines 796-811)
RecordAttempt ==
    /\ pc = "record"
    /\ attempts' = Append(attempts,
                          AttemptRow(res, MoveFile(res.parse_status, res.insert_status_code)))
    /\ now' = now + 1
    /\ idx' = idx + 1
    /\ res' = NoRes
    /\ pc' = "items"
    /\ UNCHANGED << bucket, server, batches, passNo, guids, to_add,
                    current_files, batch_start_time, mainvars, fault,
                    history, retry >>
    /\ UNCHANGED interrupted
    /\ Unobserved

\* return {"added": i} after a loop that ran at least once
ReturnAdded ==
    /\ pc = "items"
    /\ idx = Len(current_files)
    /\ idx > 0
    /\ BackToLoop([added |-> idx - 1], passNo)
    /\ retry' = {}
    /\ UNCHANGED << stores, passNo, fault >>
    /\ UNCHANGED interrupted
    /\ Unobserved

\* return {"added": i} after a loop that never ran: i is unbound
ReturnUnbound ==
    /\ pc = "items"
    /\ idx = Len(current_files)
    /\ idx = 0
    /\ Raise("UnboundLocalError", passNo)
    /\ retry' = {}
    /\ UNCHANGED << stores, passNo >>
    /\ UNCHANGED interrupted
    /\ Unobserved

-----------------------------------------------------------------------------
(* The environment *)

\* an object arrives in the bucket, created after those already there.  The
\* process reads the bucket's listing only at the start of a pass, so an
\* arrival during a pass is the same arrival just before the next one.
PutObject(f) ==
    /\ pc = "loop"
    /\ f \notin bucket
    /\ \A g \in bucket : g < f
    /\ Cardinality(bucket) < MaxBucket
    /\ bucket' = bucket \cup { f }
    /\ UNCHANGED << server, attempts, batches, pc, passNo, now, locals,
                    mainvars, fault, history, retry >>
    /\ UNCHANGED interrupted
    /\ Unobserved

\* the process is stopped from outside; a stop between two objects of a pass
\* is remembered for the restart
Kill ==
    /\ pc \in { "loop", "items", "record" }
    /\ Raise("killed", passNo)
    /\ retry' = IF pc = "loop" THEN retry ELSE {}
    /\ UNCHANGED << stores, passNo >>
    /\ interrupted' = IF pc = "items"
                     THEN [ files |-> current_files, k |-> idx,
                            batch_start_time |-> batch_start_time ]
                     ELSE IF pc = "loop" THEN interrupted ELSE NoKill
    /\ Unobserved

\* _delete_existing_data run for every debug but 0
DeleteExistingDataIfDebug(debug, rows) == IF debug >= 1 THEN << >> ELSE rows

\* _delete_existing_data
DeleteExistingData(debug, rows) == IF debug = 2 THEN << >> ELSE rows

\* the values given for --debug
DebugValues == { 0, 1, 2 }

\* the process is started again: __init__ with the given debug, then the loop
Start(debug) ==
    /\ pc = "dead"
    /\ attempts' = DeleteExistingData(debug, attempts)
    /\ batches' = DeleteExistingData(debug, batches)
    /\ pc' = "loop"
    /\ fault' = "none"
    /\ arg' = << debug >>
    /\ result' = << >>
    /\ op' = "__init__"
    /\ store' = store
    /\ UNCHANGED << bucket, server, passNo, now, locals, mainvars, history, retry,
                    interrupted >>

\* everything but the function under test
loader == << stores, pc, passNo, now, locals, mainvars, fault, history, retry,
             interrupted >>

Next ==
    \/ ListFilesFault
    \/ EmptyListing
    \/ GuidsFault
    \/ SelectBatch
    \/ FetchFault
    \/ FetchNoInsert
    \/ \E outcome \in InsertOutcomes : InsertFault(outcome)
    \/ \E outcome \in InsertOutcomes : InsertResponse(outcome)
    \/ RecordAttempt
    \/ ReturnAdded
    \/ ReturnUnbound
    \/ \E f \in Objects : PutObject(f)
    \/ Kill
    \/ \E debug \in DebugValues : Start(debug)

Spec == Init /\ [][Next]_vars

-----------------------------------------------------------------------------
(* The loader started on a bucket that holds a.fa, b.fa and c.fa and gets no
   further object *)

ScenarioInit ==
    /\ store = EmptyStore
    /\ InitWith({ 1, 2, 3 })
    /\ arg = << >>
    /\ result = << >>
    /\ op = "none"

\* the listing is never empty, and the selection is not either: no insert
\* puts b or c into the server
ScenarioNext ==
    \/ ListFilesFault
    \/ GuidsFault
    \/ SelectBatch
    \/ FetchFault
    \/ FetchNoInsert
    \/ \E outcome \in InsertOutcomes : InsertFault(outcome)
    \/ \E outcome \in InsertOutcomes : InsertResponse(outcome)
    \/ RecordAttempt
    \/ ReturnAdded
    \/ Kill
    \/ \E debug \in DebugValues : Start(debug)

ScenarioSpec == ScenarioInit /\ [][ScenarioNext]_vars

-----------------------------------------------------------------------------
(* The program from its start: __main__ constructs the loader from its
   arguments and the connection configuration, then runs the poll loop *)

\* connection_config: absent, a string holding "://", or a key into the json
\* file named by DB_CONNECTION_CONFIG_FILE
ConnectionKinds == { "None", "url", "key" }
ConfigKeys == { "DBTYPE", "ENGINE_NAME", "TNS_ADMIN" }

\* what __init__ finds: whether the environment variable is set, whether the
\* file it names exists, whether the key is in the file, which keys the
\* entry holds and its DBTYPE
Configs ==
    [ connection_config : ConnectionKinds,
      env_set : BOOLEAN,
      file_exists : BOOLEAN,
      key_in_file : BOOLEAN,
      keys : SUBSET ConfigKeys,
      dbtype : { "oracle", "sqlite" } ]

\* the exception of lines 506-561 without the test of the oracle keys
InitRaisesNoOracleTest(c) ==
    IF c.connection_config # "key" THEN "none"
    ELSE IF ~ c.env_set THEN "FN4LoadError"
    ELSE IF ~ c.file_exists THEN "FileNotFoundError"
    ELSE IF ~ c.key_in_file THEN "FN4LoadError"
    ELSE IF { "DBTYPE", "ENGINE_NAME" } \ c.keys # {} THEN "FN4LoadError"
    ELSE "none"

\* the exception __init__ raises in lines 506-561, "none" if it raises none
InitRaises(c) ==
    IF c.connection_config # "key" THEN "none"
    ELSE IF ~ c.env_set THEN "FN4LoadError"
    ELSE IF ~ c.file_exists THEN "FileNotFoundError"
    ELSE IF ~ c.key_in_file THEN "FN4LoadError"
    ELSE IF { "DBTYPE", "ENGINE_NAME" } \ c.keys # {} THEN "FN4LoadError"
    ELSE IF c.dbtype = "oracle" /\ ConfigKeys \ c.keys # {} THEN "FN4LoadError"
    ELSE "none"

\* the program has not been started: arg holds --debug and what __init__
\* will find
ProgramInit ==
    /\ bucket = {}
    /\ server = {}
    /\ attempts = << >>
    /\ batches = << >>
    /\ pc = "dead"
    /\ passNo = 0
    /\ now = 0
    /\ retry = {}
    /\ guids = {}
    /\ to_add = {}
    /\ current_files = << >>
    /\ batch_start_time = Null
    /\ idx = 0
    /\ res = NoRes
    /\ n_inserted = NoReturn
    /\ slept = FALSE
    /\ fault = "not started"
    /\ fetched = << >>
    /\ submitted = << >>
    /\ interrupted = NoKill
    /\ store = EmptyStore
    /\ arg \in { << debug, c >> : debug \in DebugValues, c \in Configs }
    /\ result = << >>
    /\ op = "none"

\* __main__, lines 881-889: the loader is constructed; if __init__ raises the
\* program ends there, else the poll loop is entered
Main ==
    /\ fault = "not started"
    /\ LET debug == arg[1]
           e == InitRaises(arg[2])
       IN  /\ result' = << e >>
           /\ IF e = "none"
              THEN /\ pc' = "loop"
                   /\ fault' = "none"
                   /\ attempts' = DeleteExistingData(debug, attempts)
                   /\ batches' = DeleteExistingData(debug, batches)
              ELSE /\ pc' = "dead"
                   /\ fault' = e
                   /\ UNCHANGED << attempts, batches >>
    /\ op' = "__main__"
    /\ store' = store
    /\ UNCHANGED << bucket, server, passNo, now, locals, mainvars, history, retry,
                    interrupted, arg >>

ProgramNext ==
    \/ Main
    \/ Next

ProgramSpec == ProgramInit /\ [][ProgramNext]_vars

-----------------------------------------------------------------------------
(* The parse loop on its own: every text of at most MaxRecords records *)

RecordIds == { GPAS_SP3_BAR \o << "a" >>, GPAS_SP3_BAR \o << "b" >>, << "e" >> }
RecordSeqs == { << "A", "C", "G" >>, << "A" >> }
Payloads ==
    UNION { [ 1 .. n -> { Rec(id, seq) : id \in RecordIds, seq \in RecordSeqs } ] :
            n \in 0 .. MaxRecords }

ParseInit ==
    /\ store = EmptyStore
    /\ MainInit
    /\ arg \in Payloads
    /\ result = << >>
    /\ op = "none"

\* lines 746-781 on the text arg, fetched between clock readings 0 and 1
ApplyParseRecords ==
    /\ op = "none"
    /\ result' = ParseRecords(arg, 0, InitialRes(<< "x", ".", "f", "a" >>, 0, 1, 0, 0, 1))
    /\ op' = "ParseRecords"
    /\ UNCHANGED << loader, arg, store >>

ParseNext == ApplyParseRecords

ParseSpec == ParseInit /\ [][ParseNext]_vars

-----------------------------------------------------------------------------
(* filename2fn4id on its own: every string made of at most MaxChunks pieces *)

Chunks == { GPAS_SP3, << "|" >>, << "." >>, << "a" >>, << "a", ".", "f", "a" >> }

RECURSIVE Concat(_)
Concat(pieces) ==
    IF pieces = << >> THEN << >> ELSE Head(pieces) \o Concat(Tail(pieces))

Strings == { Concat(pieces) : pieces \in UNION { [ 1 .. n -> Chunks ] : n \in 0 .. MaxChunks } }

ExtractInit ==
    /\ store = EmptyStore
    /\ MainInit
    /\ arg \in Strings
    /\ result = << >>
    /\ op = "none"

ApplyFilename2fn4id ==
    /\ op = "none"
    /\ result' = filename2fn4id(arg)
    /\ op' = "filename2fn4id"
    /\ UNCHANGED << loader, arg, store >>

ExtractNext == ApplyFilename2fn4id

ExtractSpec == ExtractInit /\ [][ExtractNext]_vars

-----------------------------------------------------------------------------
(* BucketAccess on its own, in front of an object store that holds at most
   one object of a name, gives every object it stores a new etag and, asked
   to with if_none_match = "*", refuses to replace an object *)

ObjectNames == { << "x" >>, << "y" >> }

\* characters of a Python str: one of one byte in utf-8, one of two bytes,
\* and a lone surrogate, which utf-8 does not encode
Chars == { "a", "U+00E9", "U+D800" }

\* values given as object_content: a str of at most one character, or bytes
Contents ==
    { [ type |-> "str", value |-> v ] : v \in { << >> } \cup { << c >> : c \in Chars } }
        \cup { [ type |-> "bytes", value |-> << >> ] }

\* whether the object store answers a request or fails it
ServiceStates == { "up", "down" }

\* object_content.encode("utf-8") raises for v
EncodeRaises(v) == \E i \in DOMAIN v : v[i] = "U+D800"

\* object_content.encode("utf-8")
RECURSIVE Encode(_)
Encode(v) ==
    IF v = << >> THEN << >>
    ELSE ( IF Head(v) = "a" THEN << 97 >> ELSE << 195, 169 >> ) \o Encode(Tail(v))

\* content.decode with one character for every byte
RECURSIVE DecodeLatin1(_)
DecodeLatin1(b) ==
    IF b = << >> THEN << >>
    ELSE ( IF Head(b) = 97 THEN << "a" >>
           ELSE IF Head(b) = 195 THEN << "U+00C3" >>
           ELSE << "U+00A9" >> ) \o DecodeLatin1(Tail(b))

\* res.data.content.decode("utf-8")
RECURSIVE Decode(_)
Decode(b) ==
    IF b = << >> THEN << >>
    ELSE IF Head(b) < 128
         THEN << "a" >> \o Decode(Tail(b))
         ELSE << "U+00E9" >> \o Decode(Tail(Tail(b)))

\* the object store holds an object of this name
Exists(objects, name) == \E o \in objects : o.name = name

\* put_object without if_none_match: an object is replaced
IfNoneMatchFailedNever(objects, name) == FALSE

\* put_object with if_none_match = "*" fails with IfNoneMatchFailed
IfNoneMatchFailed(objects, name) == Exists(objects, name)

\* the time of creation of the latest object
LatestTime(objects) ==
    IF objects = {} THEN 0
    ELSE CHOOSE t \in { o.time_created : o \in objects } :
             \A o \in objects : o.time_created <= t

\* what a call returns or raises
Returns(kind, value) == [ kind |-> kind, value |-> value ]

\* retdict keyed by md5, which is the same for objects of the same content
RowKeyMd5(item) == item.body

\* the key of retdict for a listed object
RowKey(item) == item.etag

\* the values of retdict: one for every key (for a key held by several
\* listed objects, one of them)
Retdict(objects) ==
    { CHOOSE o \in objects : RowKey(o) = k : k \in { RowKey(o) : o \in objects } }

\* the row of the data frame for a listed object
FileRow(o) ==
    [ etag |-> o.etag, time_created |-> o.time_created, md5 |-> o.body,
      name |-> o.name, size |-> Len(o.body) ]

\* pending_files.sort_values(by="time_created", ascending=True): the rows in
\* an order of ascending time_created (rows of the same time in some order)
SortValues(rows) ==
    { q \in [ 1 .. Cardinality(rows) -> rows ] :
        /\ \A i, j \in DOMAIN q : i # j => q[i] # q[j]
        /\ \A i, j \in DOMAIN q : i < j => q[i].time_created <= q[j].time_created }

BucketInit ==
    /\ MainInit
    /\ store = EmptyStore
    /\ arg = << >>
    /\ result = << >>
    /\ op = "none"

\* save_string_into_object(name, c); tick says whether the clock of the
\* object store has moved on since the latest object was created
SaveStringIntoObject(name, c, svc, tick) ==
    /\ op' = "save_string_into_object"
    /\ arg' = << name, c, svc >>
    /\ IF c.type # "str"
       THEN result' = Returns("raise", << "TypeError" >>) /\ store' = store
       ELSE IF EncodeRaises(c.value)
       THEN result' = Returns("raise", << "UnicodeEncodeError" >>) /\ store' = store
       ELSE IF svc = "down"
       THEN result' = Returns("raise", << "ServiceError" >>) /\ store' = store
       ELSE IF IfNoneMatchFailed(store.objects, name)
       THEN result' = Returns("return", << "already exists" >>) /\ store' = store
       ELSE /\ store.puts < MaxPuts
            /\ result' = Returns("return", << "success" >>)
            /\ store' =
                  [ objects |->
                        { o \in store.objects : o.name # name }
                            \cup { [ name |-> name,
                                     content |-> c.value,
                                     body |-> Encode(c.value),
                                     etag |-> store.puts + 1,
                                     time_created |-> LatestTime(store.objects) + tick ] },
                    puts |-> store.puts + 1 ]
    /\ UNCHANGED loader

\* delete_object(name)
DeleteObject(name, svc) ==
    /\ op' = "delete_object"
    /\ arg' = << name, svc >>
    /\ IF svc = "up" /\ Exists(store.objects, name)
       THEN /\ result' = Returns("None", << >>)
            /\ store' = [ store EXCEPT !.objects = { o \in @ : o.name # name } ]
       ELSE /\ result' = Returns("raise", << "ServiceError" >>)
            /\ store' = store
    /\ UNCHANGED loader

\* load_bucket_into_string(name)
LoadBucketIntoString(name, svc) ==
    /\ op' = "load_bucket_into_string"
    /\ arg' = << name, svc >>
    /\ IF svc = "up" /\ Exists(store.objects, name)
       THEN LET o == CHOOSE x \in store.objects : x.name = name
            IN  result' = Returns("str", Decode(o.body))
       ELSE result' = Returns("raise", << "ServiceError" >>)
    /\ store' = store
    /\ UNCHANGED loader

\* list_files()
ListFiles(svc) ==
    /\ op' = "list_files"
    /\ arg' = << svc >>
    /\ IF svc = "down"
       THEN result' = Returns("raise", << "ServiceError" >>)
       ELSE LET rows == { FileRow(o) : o \in Retdict(store.objects) }
            IN  IF rows = {}
                THEN result' = Returns("None", << >>)
                ELSE \E q \in SortValues(rows) : result' = Returns("DataFrame", q)
    /\ store' = store
    /\ UNCHANGED loader

BucketNext ==
    \/ \E name \in ObjectNames, c \in Contents, svc \in ServiceStates, tick \in { 0, 1 } :
          SaveStringIntoObject(name, c, svc, tick)
    \/ \E name \in ObjectNames, svc \in ServiceStates : DeleteObject(name, svc)
    \/ \E name \in ObjectNames, svc \in ServiceStates : LoadBucketIntoString(name, svc)
    \/ \E svc \in ServiceStates : ListFiles(svc)

BucketSpec == BucketInit /\ [][BucketNext]_vars

-----------------------------------------------------------------------------
(* Vocabulary of the properties *)

Range(q) == { q[k] : k \in DOMAIN q }

NameOf(f) == BucketObjects[f].name

\* the rows of fn4loadattempt written for this server and host
RowsHere(rows) ==
    { rows[k] : k \in { j \in DOMAIN rows :
                          /\ rows[j].host_name = HostName
                          /\ rows[j].findneighbour_server_url = ServerUrl } }

\* object f has a row with completed = 1
HasCompleted(f) ==
    \E row \in RowsHere(attempts) : row.file_name = NameOf(f) /\ row.completed = 1

\* the identities with a row with completed = 1, by the name of the object
CompletedIdentities ==
    { Fn4idOfName(row.file_name) : row \in { r \in RowsHere(attempts) : r.completed = 1 } }

\* a step that computes the selection of a pass
Selects == pc = "loop" /\ pc' = "items"

\* a step in which the loop fetches (or fails to fetch) the object it is at
ProcessesObject ==
    /\ pc = "items"
    /\ idx < Len(current_files)
    /\ \/ pc' = "record"
       \/ fault' \in { "load_bucket_into_string", "_insert" }

\* a step in which the loop calls _insert for the object it is at
Submits ==
    /\ pc = "items"
    /\ idx < Len(current_files)
    /\ CurrentParsed.fn4id # None
    /\ \/ pc' = "record"
       \/ fault' = "_insert"

\* the identity under which the object is submitted is the one its name
\* gives: the bit before the first ".", with or without the tag
SubmitsUnderItsName ==
    LET stem == Fn4idOfName(NameOf(CurrentObject))
    IN  CurrentParsed.fn4id \in { stem, filename2fn4id(stem) }

\* a step in which the fetch of an object raises
FetchRaises == fault = "none" /\ fault' = "load_bucket_into_string"

\* a step in which the insert of an object raises (no response, or code >= 500)
InsertRaises == fault = "none" /\ fault' = "_insert"

\* a row of a parsed object whose insert was answered with a code below 500
\* other than 200
Rejected(row) ==
    /\ row.parse_status = "Success"
    /\ row.insert_status_code # Null
    /\ row.insert_status_code # 200
    /\ row.insert_status_code < 500

\* the rows of the pass with this batch_start_time for the object named name
RowsOfPass(rows, bst, name) ==
    { k \in DOMAIN rows : rows[k].batch_start_time = bst /\ rows[k].file_name = name }

-----------------------------------------------------------------------------
(* Properties *)

\* C1: right after the selection of a pass, the selected identities are
\* S - R - L: S the identities of the listed names, R the guids read from the
\* server in this pass, L the identities with a row with completed = 1.
C1_CandidatesAreSMinusRMinusL ==
    (pc = "items" /\ idx = 0)
        => to_add = (Fn4idsOf(list_files(bucket)) \ guids) \ CompletedIdentities

\* C2: once an object has a row with completed = 1, no later step fetches,
\* parses, submits or records it (a reset of the ledger removes the row).
C2_CompletedNeverProcessedAgain ==
    [][ProcessesObject => ~ HasCompleted(CurrentObject)]_vars

\* C3: an object that has a row with completed = 1 from an earlier pass
\* causes no _insert call in a later pass.
C3_CompletedNeverSubmittedAgain ==
    [][Submits => ~ HasCompleted(CurrentObject)]_vars

\* C4: no _insert call is made with a guid that was among the guids read from
\* the server at the start of the pass.
C4_NoSubmitOfGuidInR ==
    [][Submits => CurrentParsed.fn4id \notin guids]_vars

\* C5: in every row, completed = 1 exactly when parse_status is not Success
\* or insert_status_code is 200.
C5_CompletedIffParseFailedOrAccepted ==
    \A k \in DOMAIN attempts :
        attempts[k].completed = 1
            <=> (attempts[k].parse_status # "Success" \/ attempts[k].insert_status_code = 200)

\* C5 witness: the ledger holds a parsed object's row with code 200 and
\* completed = 1, and a parsed object's row with another code and
\* completed = 0.
C5_Witness ==
    /\ \E k \in DOMAIN attempts :
          /\ attempts[k].parse_status = "Success"
          /\ attempts[k].insert_status_code = 200
          /\ attempts[k].completed = 1
    /\ \E k \in DOMAIN attempts :
          /\ attempts[k].parse_status = "Success"
          /\ attempts[k].insert_status_code = 400
          /\ attempts[k].completed = 0

\* C6 as stated: a row whose insert was answered with a code below 500 other
\* than 200 has completed = 1.
C6_RejectedIsCompleted ==
    \A k \in DOMAIN attempts : Rejected(attempts[k]) => attempts[k].completed = 1

\* C6 amended: a row whose insert was answered with a code below 500 other
\* than 200 has completed = 0, and every later selection selects its object
\* again unless the server then lists the identity of the object's name.
C6_RejectedIsRetried ==
    [][ /\ \A k \in DOMAIN attempts' :
              Rejected(attempts'[k]) => attempts'[k].completed = 0
        /\ Selects =>
              \A k \in DOMAIN attempts :
                  (Rejected(attempts[k]) /\ Fn4idOfName(attempts[k].file_name) \notin guids')
                      => Fn4idOfName(attempts[k].file_name) \in to_add'
      ]_vars

\* C6 witness: a pass has selected an object that has a row, from an earlier
\* pass, of an insert answered with 400.
C6_Witness ==
    /\ pc = "items"
    /\ \E k \in DOMAIN attempts :
          /\ Rejected(attempts[k])
          /\ attempts[k].completed = 0
          /\ attempts[k].batch_start_time < batch_start_time
          /\ Fn4idOfName(attempts[k].file_name) \in to_add

\* C7: when the insert of an object ends with a code >= 500, a row with
\* completed = 0 is written for it and the pass goes on with the next object.
C7_InsertFaultIsRecorded ==
    [][InsertRaises =>
          /\ Len(attempts') = Len(attempts) + 1
          /\ attempts'[Len(attempts')].file_name = NameOf(CurrentObject)
          /\ attempts'[Len(attempts')].completed = 0
          /\ pc' = "items"
      ]_vars

\* C8: an insert that fails transiently (server unreachable, or code >= 500)
\* writes no row, so none with completed = 1: no row carries a code >= 500,
\* and the step in which the insert raises leaves the ledger as it was; the
\* next selection selects the object again.
C8_TransientFailureIsRetried ==
    [][ /\ \A k \in DOMAIN attempts' : attempts'[k].insert_status_code < 500
        /\ InsertRaises => attempts' = attempts
        /\ pc' = "items" =>
              \A f \in retry' :
                  /\ f \in Range(current_files')
                  /\ Fn4idOfName(NameOf(f)) \in to_add'
      ]_vars

\* a pass after one in which the insert of an object raised has selected
\* that object (the object was the only one of its identity)
C8_Witness ==
    /\ pc = "items"
    /\ retry # {}
    /\ retry \subseteq Range(current_files)

\* C9: when the fetch of an object raises, a row is written for that object
\* and the pass goes on with the next object.
C9_FetchFaultIsRecorded ==
    [][FetchRaises =>
          /\ Len(attempts') = Len(attempts) + 1
          /\ attempts'[Len(attempts')].file_name = NameOf(CurrentObject)
          /\ pc' = "items"
      ]_vars

\* C10: when a pass ends, by returning or by a fault of a fetch or of an
\* insert, the ledger holds exactly one row of that pass for each selected
\* object.
C10_OneRowPerCandidate ==
    [][ ( /\ pc \in { "items", "record" }
          /\ pc' \in { "loop", "dead" }
          /\ fault' # "killed" )
        => \A k \in DOMAIN current_files :
              Cardinality(RowsOfPass(attempts', batch_start_time,
                                     NameOf(current_files[k]))) = 1
      ]_vars

\* C11: the parse loop classifies a text by its number of records: none
\* leaves parse_status "Failed" with no seqid and no len_seq; exactly one
\* gives "Success" with the seqid and the sequence length of that record; two
\* or more give "Failed, multifasta", however many follow the second.
C11_ParseClassifiesByRecordCount ==
    op = "ParseRecords" =>
        /\ Len(arg) = 0 => /\ result.parse_status = "Failed"
                           /\ result.seqid = None
                           /\ result.len_seq = Null
        /\ Len(arg) = 1 => /\ result.parse_status = "Success"
                           /\ result.seqid = arg[1].id
                           /\ result.len_seq = Len(arg[1].seq)
        /\ Len(arg) >= 2 => result.parse_status = "Failed, multifasta"

\* C11 witness: a text of three records has been parsed.
C11_Witness ==
    /\ op = "ParseRecords"
    /\ Len(arg) = 3
    /\ result.parse_status = "Failed, multifasta"

\* C12: an object whose parse does not end in Success is never submitted and
\* its row has completed = 1 and no insert_status_code; every _insert call is
\* for an object of exactly one record and carries that record's sequence.
C12_NoSubmitUnlessParsed ==
    [][ /\ Submits =>
              /\ Len(BucketObjects[CurrentObject].content) = 1
              /\ CurrentParsed.parse_status = "Success"
              /\ CurrentParsed.seq = BucketObjects[CurrentObject].content[1].seq
        /\ \A k \in DOMAIN attempts' :
              attempts'[k].parse_status # "Success"
                  => /\ attempts'[k].completed = 1
                     /\ attempts'[k].insert_status_code = Null
                     /\ attempts'[k].insert_start_time = Null
      ]_vars

\* C12 witness: the ledger holds the row of a text without records and the
\* row of a text of two records, both completed and without an insert.
C12_Witness ==
    \E j, k \in DOMAIN attempts :
        /\ attempts[j].parse_status = "Failed"
        /\ attempts[k].parse_status = "Failed, multifasta"
        /\ attempts[j].completed = 1 /\ attempts[j].insert_status_code = Null
        /\ attempts[k].completed = 1 /\ attempts[k].insert_status_code = Null

C14_RestartResumesAfterK ==
    [][ ( Selects /\ interrupted.files # << >> )
        => \A j \in DOMAIN interrupted.files :
              LET name == NameOf(interrupted.files[j])
                  id == Fn4idOfName(name)
                  rows == RowsOfPass(attempts, interrupted.batch_start_time, name)
              IN  /\ j > interrupted.k => id \in to_add'
                  /\ j <= interrupted.k =>
                        \A r \in rows :
                            /\ attempts[r].completed = 1 => id \notin to_add'
                            /\ attempts[r].completed = 0 => id \in to_add'
      ]_vars

\* the rows of the first pass for the object named name
FirstPassRows(name) ==
    { attempts[k] : k \in RowsOfPass(attempts, 0, name) }

\* the first pass recorded a.fa, b.fa and c.fa and every insert it made was
\* answered with 200
FirstPassDone ==
    /\ \A f \in { 1, 2, 3 } : FirstPassRows(NameOf(f)) # {}
    /\ \A k \in DOMAIN attempts : attempts[k].insert_status_code \in { Null, 200 }

\* C15: the bucket holds a.fa (one record, its id gives the name's identity),
\* b.fa (two records) and c.fa (one record, its id gives another identity)
\* and the server, empty at first, accepts every insert.  After the first
\* pass a.fa has a row with an insert and completed = 1, b.fa and c.fa have
\* rows with completed = 1 and no insert; the second pass selects nothing.
C15_ScenarioABC ==
    FirstPassDone =>
        /\ \A row \in FirstPassRows(NameOf(1)) :
              row.insert_status_code = 200 /\ row.completed = 1
        /\ \A row \in FirstPassRows(NameOf(2)) :
              /\ row.parse_status = "Failed, multifasta"
              /\ row.insert_status_code = Null
              /\ row.completed = 1
        /\ \A row \in FirstPassRows(NameOf(3)) :
              /\ row.parse_status # "Success"
              /\ row.insert_status_code = Null
              /\ row.completed = 1
        /\ (passNo = 2 /\ pc = "items") => to_add = {}

\* C16: filename2fn4id returns None exactly for the names that do not begin
\* with the tag and its separator, "GPAS_SP3|"; for the others it returns the
\* name without that leading tag and separator and without everything from
\* the first "." on.
C16_ExtractStripsTagAndQualifier ==
    op = "filename2fn4id" =>
        IF StartsWith(arg, GPAS_SP3_BAR)
        THEN result = SplitFirst(SubSeq(arg, Len(GPAS_SP3_BAR) + 1, Len(arg)), << "." >>)
        ELSE result = None

\* a step in which a pass ends at line 681: the listing was empty
ReturnsOnEmptyListing == pc = "loop" /\ passNo' = passNo + 1 /\ pc' = "loop"

\* a step in which a pass reaches line 812, the loop over the selection done
ReachesReturn ==
    /\ pc = "items"
    /\ idx = Len(current_files)
    /\ pc' # "items"
    /\ fault' # "killed"

\* C17: the poll loop sleeps after a pass exactly when the pass found no
\* candidate, an empty listing included, and then goes on; after any other
\* pass it begins the next one without sleeping.
C17_SleepsIffNoCandidate ==
    [][ /\ ReturnsOnEmptyListing => slept'
        /\ ReachesReturn => /\ pc' = "loop"
                            /\ slept' <=> (current_files = << >>)
      ]_vars

\* C18: the poll loop never ends by itself: whatever a pass meets (an empty
\* listing, an empty selection, a fault of the listing, of a fetch or of an
\* insert), the process is still running afterwards and ends only when it is
\* stopped from outside.
C18_LoopNeverEndsByItself ==
    [][(pc # "dead" /\ pc' = "dead") => fault' = "killed"]_vars

\* a step that adds a row to fn4batchload
WritesBatchRow == Len(batches') = Len(batches) + 1

\* a step that adds a row to fn4loadattempt
WritesAttemptRow == Len(attempts') = Len(attempts) + 1

\* C19 as stated: when the batch row of a pass is written, the rows of all
\* the objects selected in that pass are in the ledger already.
C19_BatchRowAfterLastAttempt ==
    [][WritesBatchRow =>
          \A k \in DOMAIN current_files' :
              RowsOfPass(attempts', batch_start_time', NameOf(current_files'[k])) # {}
      ]_vars

\* C19 amended: the batch row of a pass is written right after the
\* selection, before the first object is fetched.  When it is written the
\* ledger holds no row of that pass, and every attempt row is written after
\* the batch row of its pass: that row is the last of fn4batchload and its
\* check_time lies between the row's batch_start_time and its
\* bucket_read_start_time.
C19_BatchRowBeforeFirstAttempt ==
    [][ /\ WritesBatchRow =>
              \A k \in DOMAIN attempts' :
                  attempts'[k].batch_start_time # batch_start_time'
        /\ WritesAttemptRow =>
              /\ batches # << >>
              /\ LET row == attempts'[Len(attempts')]
                     bc == batches[Len(batches)]
                 IN  /\ row.batch_start_time <= bc.check_time
                     /\ bc.check_time < row.bucket_read_start_time
      ]_vars

\* C19 witness: a pass has written its batch row and, after it, the rows of
\* two objects.
C19_Witness ==
    /\ pc = "items"
    /\ idx = 2
    /\ batches # << >>
    /\ \A k \in DOMAIN attempts :
          attempts[k].batch_start_time = batch_start_time
              => batches[Len(batches)].check_time < attempts[k].bucket_read_start_time
    /\ \E k \in DOMAIN attempts : attempts[k].batch_start_time = batch_start_time

\* C20: every pass whose listing succeeds, a pass over an empty bucket
\* included, writes exactly one batch row; its batch_size is the number of
\* identities in S - R - L (as in C1) and its number_in_server the number of
\* guids read from the server in that pass.
C20_OneBatchRowPerListedPass ==
    [][ /\ ReturnsOnEmptyListing =>
              /\ WritesBatchRow
              /\ batches'[Len(batches')].batch_size = 0
        /\ Selects =>
              /\ WritesBatchRow
              /\ batches'[Len(batches')].batch_size =
                    Cardinality((Fn4idsOf(list_files(bucket)) \ guids') \ CompletedIdentities)
              /\ batches'[Len(batches')].number_in_server = Cardinality(guids')
        /\ WritesBatchRow => (Selects \/ ReturnsOnEmptyListing)
      ]_vars

\* a step in which list_files or guids raises
ListingRaises == fault = "none" /\ fault' \in { "list_files", "guids" }

\* C21: when the listing of the bucket or of the server's guids fails, the
\* pass ends without a row written to either table and the process goes on
\* to the next pass, which lists anew.
C21_ListingFaultEndsPassOnly ==
    [][ListingRaises =>
          /\ attempts' = attempts
          /\ batches' = batches
          /\ pc' = "loop"
      ]_vars

\* s is t or a beginning of t
IsPrefix(s, t) == Len(s) <= Len(t) /\ SubSeq(t, 1, Len(s)) = s

StoppedBetweenObjects == pc = "items" /\ fault' = "killed"

\* C23: when the loop turns to the object after the idx-th, and when the
\* process is stopped between two objects, the ledger holds a row of this
\* pass for each of the first idx selected objects, written before the clock
\* reading that starts the next fetch.
C23_RecordedBeforeNextFetch ==
    [][(ProcessesObject \/ StoppedBetweenObjects) =>
          \A k \in 1 .. idx :
              /\ RowsOfPass(attempts, batch_start_time, NameOf(current_files[k])) # {}
              /\ \A r \in RowsOfPass(attempts', batch_start_time, NameOf(current_files[k])) :
                    attempts'[r].bucket_read_end_time < now
      ]_vars

\* C23 witness: the second object of a pass has been fetched and the row of
\* the first is in the ledger.
C23_Witness ==
    /\ pc = "record"
    /\ idx = 1
    /\ RowsOfPass(attempts, batch_start_time, NameOf(current_files[1])) # {}

\* the configuration errors as the claim lists them: a key is given and the
\* environment variable is unset, the file is missing, the key is not in the
\* file, or one of DBTYPE, ENGINE_NAME, TNS_ADMIN is missing from the entry
ListedConfigError(c) ==
    /\ c.connection_config = "key"
    /\ \/ ~ c.env_set
       \/ ~ c.file_exists
       \/ ~ c.key_in_file
       \/ ConfigKeys \ c.keys # {}

\* the same with TNS_ADMIN asked for only of an entry whose DBTYPE is oracle
ConfigError(c) ==
    /\ c.connection_config = "key"
    /\ \/ ~ c.env_set
       \/ ~ c.file_exists
       \/ ~ c.key_in_file
       \/ { "DBTYPE", "ENGINE_NAME" } \ c.keys # {}
       \/ c.dbtype = "oracle" /\ "TNS_ADMIN" \notin c.keys

\* the start of the program raised and left everything as it was
RaisedAtConstruction ==
    /\ result'[1] # "none"
    /\ pc' = "dead"
    /\ UNCHANGED << bucket, server, attempts, batches, passNo, fetched, submitted >>

\* C24 as stated: with any of the listed configuration errors the
\* construction raises: the poll loop is not entered, no pass runs, nothing
\* is sent to the server and no row is written.
C24_ListedConfigErrorIsFatal ==
    [][(op' = "__main__" /\ ListedConfigError(arg'[2])) => RaisedAtConstruction]_vars

\* C24 amended: as stated, but a missing TNS_ADMIN is an error only of an
\* entry whose DBTYPE is oracle.
C24_ConfigErrorIsFatal ==
    [][(op' = "__main__" /\ ConfigError(arg'[2])) => RaisedAtConstruction]_vars

\* C24 witness: the program was started with an oracle entry without
\* TNS_ADMIN and ended in __init__.
C24_Witness ==
    /\ op = "__main__"
    /\ arg[2].connection_config = "key"
    /\ arg[2].env_set /\ arg[2].file_exists /\ arg[2].key_in_file
    /\ arg[2].keys = { "DBTYPE", "ENGINE_NAME" }
    /\ arg[2].dbtype = "oracle"
    /\ result = << "FN4LoadError" >>
    /\ pc = "dead"
    /\ passNo = 0
    /\ attempts = << >>

\* C25: a list_files call that the object store answers returns None exactly
\* when the bucket holds no object; otherwise it returns a table with one
\* row for each object now in the bucket and no other row, in ascending
\* order of time_created.
C25_ListFilesListsTheBucket ==
    (op = "list_files" /\ result.kind # "raise") =>
        IF store.objects = {}
        THEN result.kind = "None"
        ELSE /\ result.kind = "DataFrame"
             /\ Len(result.value) = Cardinality(store.objects)
             /\ { result.value[i].name : i \in DOMAIN result.value }
                    = { o.name : o \in store.objects }
             /\ \A i, j \in DOMAIN result.value :
                    i < j => result.value[i].time_created <= result.value[j].time_created

\* C25 witness: three objects were stored, one of them was deleted since, and
\* list_files has returned the two that are left.
C25_Witness ==
    /\ op = "list_files"
    /\ store.puts = 3
    /\ Cardinality(store.objects) = 2
    /\ result.kind = "DataFrame"
    /\ Len(result.value) = 2

\* C26: load_bucket_into_string, answered by the object store, returns for
\* the name of an object in the bucket exactly the content that the
\* successful save_string_into_object stored under it; for a name without
\* an object (never written, or deleted) it raises a ServiceError.
C26_LoadReturnsWhatWasSaved ==
    (op = "load_bucket_into_string" /\ arg[2] = "up") =>
        IF Exists(store.objects, arg[1])
        THEN /\ result.kind = "str"
             /\ \A o \in store.objects : o.name = arg[1] => result.value = o.content
        ELSE result = Returns("raise", << "ServiceError" >>)

\* C26 witness: a content of a character of two bytes has been read back.
C26_Witness ==
    /\ op = "load_bucket_into_string"
    /\ result = Returns("str", << "U+00E9" >>)

\* C27: save_string_into_object, given a str that utf-8 encodes and answered
\* by the object store, returns "already exists" and leaves the bucket as it
\* is when the name has an object; it returns "success" only when the name
\* had none, and then the bucket holds the content under the name.  Given
\* content that is not a str it raises TypeError and leaves the bucket as it
\* is.
C27_SaveNeverOverwrites ==
    [][op' = "save_string_into_object" =>
          LET name == arg'[1]
              c == arg'[2]
              svc == arg'[3]
          IN  /\ c.type # "str" =>
                    /\ result' = Returns("raise", << "TypeError" >>)
                    /\ store' = store
              /\ ( /\ c.type = "str"
                   /\ ~ EncodeRaises(c.value)
                   /\ svc = "up"
                   /\ Exists(store.objects, name) ) =>
                    /\ result' = Returns("return", << "already exists" >>)
                    /\ store' = store
              /\ result' = Returns("return", << "success" >>) =>
                    /\ ~ Exists(store.objects, name)
                    /\ \E o \in store'.objects : o.name = name /\ o.content = c.value
                    /\ { o \in store'.objects : o.name # name } = store.objects
      ]_vars

\* C27 witness: a second save under a name that has an object was answered
\* with "already exists" and the object still holds the first content.
C27_Witness ==
    /\ op = "save_string_into_object"
    /\ result = Returns("return", << "already exists" >>)
    /\ arg[2].value = << "a" >>
    /\ \E o \in store.objects : o.name = arg[1] /\ o.content = << "U+00E9" >>

\* C28: objects whose names give the same identity are one unit of work: the
\* ledger holds at most one row of the current pass, and the pass has made
\* at most one _insert call, for the objects of one identity.
C28_OneAttemptPerIdentity ==
    pc \in { "items", "record" } =>
        /\ \A j, k \in DOMAIN attempts :
              ( /\ attempts[j].batch_start_time = batch_start_time
                /\ attempts[k].batch_start_time = batch_start_time
                /\ Fn4idOfName(attempts[j].file_name) = Fn4idOfName(attempts[k].file_name) )
                  => j = k
        /\ \A j, k \in DOMAIN submitted :
              Fn4idOfName(NameOf(submitted[j].object)) = Fn4idOfName(NameOf(submitted[k].object))
                  => j = k

\* the id of the one record of object f with every "GPAS_SP3|" taken out
RecordIdentity(f) == Replace(BucketObjects[f].content[1].id, GPAS_SP3_BAR, << >>)

\* C29 as stated: every _insert call is made under the id of the record with
\* the tag removed, and that value is never the identity the file name gives.
C29_SentIsNeverTheNameIdentity ==
    [][Submits =>
          /\ CurrentParsed.fn4id = RecordIdentity(CurrentObject)
          /\ CurrentParsed.fn4id # Fn4idOfName(NameOf(CurrentObject))
      ]_vars

\* C29 amended: every _insert call is made under the id of the record with
\* the tag removed, whatever the file is called: two objects of the same
\* content are sent under the same value, and the value is the identity of
\* the file name only where the two are equal.  Every call that was answered
\* is on record with that value.
C29_SentIsTheRecordIdentity ==
    [][ /\ Submits =>
              /\ CurrentParsed.fn4id = RecordIdentity(CurrentObject)
              /\ Fn4idOfName(NameOf(CurrentObject)) # RecordIdentity(CurrentObject)
                    => CurrentParsed.fn4id # Fn4idOfName(NameOf(CurrentObject))
              /\ pc' = "record" =>
                    /\ submitted'[Len(submitted')].object = CurrentObject
                    /\ submitted'[Len(submitted')].guid = RecordIdentity(CurrentObject)
        /\ \A j, k \in DOMAIN submitted' :
              BucketObjects[submitted'[j].object].content
                    = BucketObjects[submitted'[k].object].content
                  => submitted'[j].guid = submitted'[k].guid
      ]_vars

\* C29 witness: c.fa, whose name gives "c", has been sent under "a", the id
\* of its record, and so has a.fasta, whose name gives "a".
C29_Witness ==
    \E j, k \in DOMAIN submitted :
        /\ NameOf(submitted[j].object) = << "c", ".", "f", "a" >>
        /\ Fn4idOfName(NameOf(submitted[j].object)) = << "c" >>
        /\ submitted[j].guid = << "a" >>
        /\ NameOf(submitted[k].object) = << "a", ".", "f", "a", "s", "t", "a" >>
        /\ submitted[k].guid = << "a" >>

====
